---------------------------- MODULE Spec2Model ----------------------------
(***************************************************************************)
(* A model of vault-mcp (src/src/index.ts): the startup of the process     *)
(* (main, the VaultMcpServer constructor and its zod configuration schema, *)
(* start), the tools, resources and prompt the constructor registers, and  *)
(* the handling of tool calls and resource reads against the Vault client. *)
(*                                                                         *)
(* JavaScript strings are sequences of one-character strings, so that the  *)
(* conversions the code applies to them (Number(), new URL(), startsWith)  *)
(* are computed character by character.                                    *)
(***************************************************************************)
EXTENDS Integers, Sequences, FiniteSets, TLC

(***************************************************************************)
(* Bounds of the model.                                                    *)
(***************************************************************************)
\* longest VAULT_ADDR enumerated by InitConfig
MaxAddrLen == 5
\* longest VAULT_TOKEN enumerated by InitConfig
MaxTokenLen == 5
\* longest MCP_PORT enumerated by InitConfig
MaxPortLen == 3
\* longest capabilities string enumerated by NextPrompt
MaxCapsLen == 4

(***************************************************************************)
(* Strings and environment variables.                                      *)
(***************************************************************************)
\* process.env.X: undefined when the variable is not set, else a string
Unset == [set |-> FALSE, s |-> <<>>]

EnvStr(s) == [set |-> TRUE, s |-> s]

\* all strings over an alphabet up to a length
StringsUpTo(alphabet, n) == UNION {[1..k -> alphabet] : k \in 0..n}

Drop(s, n) == SubSeq(s, n + 1, Len(s))

\* String.prototype.startsWith
StartsWith(s, prefix) ==
    /\ Len(s) >= Len(prefix)
    /\ SubSeq(s, 1, Len(prefix)) = prefix

\* JavaScript truthiness of a string-or-undefined: undefined and "" are falsy
Truthy(v) == v.set /\ v.s # <<>>

IsSpace(c) == c = " "

RECURSIVE TrimStart(_)
TrimStart(s) ==
    IF s # <<>> /\ IsSpace(s[1]) THEN TrimStart(Tail(s)) ELSE s

RECURSIVE TrimEnd(_)
TrimEnd(s) ==
    IF s # <<>> /\ IsSpace(s[Len(s)]) THEN TrimEnd(SubSeq(s, 1, Len(s) - 1)) ELSE s

\* String.prototype.trim, and the whitespace stripping of Number() and new URL()
Trim(s) == TrimEnd(TrimStart(s))

(***************************************************************************)
(* Number(string): the StringToNumber conversion z.coerce.number() applies *)
(* to MCP_PORT.  The result is a record: kind "nan"; kind "int" with its   *)
(* value v; kind "float" (a finite non-integer); kind "huge" (a finite     *)
(* integer of magnitude above 10^6, sign in v).                            *)
(***************************************************************************)
IsDigit(c) == c \in {"0", "1", "2", "3", "4", "5", "6", "7", "8", "9"}

DigitVal(c) ==
    CASE c = "0" -> 0 [] c = "1" -> 1 [] c = "2" -> 2 [] c = "3" -> 3
      [] c = "4" -> 4 [] c = "5" -> 5 [] c = "6" -> 6 [] c = "7" -> 7
      [] c = "8" -> 8 [] c = "9" -> 9

\* the number of leading decimal digits of s
RECURSIVE DigitPrefix(_)
DigitPrefix(s) ==
    IF s # <<>> /\ IsDigit(s[1]) THEN 1 + DigitPrefix(Tail(s)) ELSE 0

\* the value of a sequence of decimal digits
RECURSIVE DigitsVal(_)
DigitsVal(s) ==
    IF s = <<>> THEN 0
    ELSE 10 * DigitsVal(SubSeq(s, 1, Len(s) - 1)) + DigitVal(s[Len(s)])

RECURSIVE Pow10(_)
Pow10(k) == IF k = 0 THEN 1 ELSE 10 * Pow10(k - 1)

NaN == [v |-> 0, kind |-> "nan"]

\* sign * d * 10^e, for a digit value d >= 0.  A "float" carries its integer
\* part (truncated towards zero) in v, a "huge" its sign.
Scaled(sign, d, e) ==
    IF d = 0 THEN [v |-> 0, kind |-> "int"]
    ELSE IF e >= 0
         THEN IF e > 5 THEN [v |-> sign, kind |-> "huge"]
              ELSE IF d * Pow10(e) > 1000000 THEN [v |-> sign, kind |-> "huge"]
              ELSE [v |-> sign * d * Pow10(e), kind |-> "int"]
         ELSE IF -e > 9 THEN [v |-> 0, kind |-> "float"]
              ELSE IF d % Pow10(-e) = 0
                   THEN [v |-> sign * (d \div Pow10(-e)), kind |-> "int"]
                   ELSE [v |-> sign * (d \div Pow10(-e)), kind |-> "float"]

\* n < k and n > k, for an integer bound k with 0 < k < 10^6
NumLess(n, k) ==
    CASE n.kind = "int"   -> n.v < k
      [] n.kind = "float" -> n.v < k
      [] n.kind = "huge"  -> n.v < 0

NumGreater(n, k) ==
    CASE n.kind = "int"   -> n.v > k
      [] n.kind = "float" -> n.v >= k
      [] n.kind = "huge"  -> n.v > 0

\* StrDecimalLiteral: [sign] digits [. digits] [e [sign] digits], all of b
ParseDecimal(b) ==
    LET neg    == b # <<>> /\ b[1] = "-"
        pos    == b # <<>> /\ b[1] = "+"
        r0     == IF neg \/ pos THEN Tail(b) ELSE b
        n1     == DigitPrefix(r0)
        r1     == Drop(r0, n1)
        hasDot == r1 # <<>> /\ r1[1] = "."
        r2     == IF hasDot THEN Tail(r1) ELSE r1
        n2     == IF hasDot THEN DigitPrefix(r2) ELSE 0
        r3     == Drop(r2, n2)
        hasExp == r3 # <<>> /\ r3[1] \in {"e", "E"}
        r4     == IF hasExp THEN Tail(r3) ELSE r3
        expNeg == hasExp /\ r4 # <<>> /\ r4[1] = "-"
        expPos == hasExp /\ r4 # <<>> /\ r4[1] = "+"
        r5     == IF expNeg \/ expPos THEN Tail(r4) ELSE r4
        n3     == IF hasExp THEN DigitPrefix(r5) ELSE 0
        r6     == Drop(r5, n3)
        ok     == n1 + n2 >= 1 /\ (hasExp => n3 >= 1) /\ r6 = <<>>
        d      == DigitsVal(SubSeq(r0, 1, n1) \o SubSeq(r2, 1, n2))
        ex     == DigitsVal(SubSeq(r5, 1, n3))
        e      == (IF expNeg THEN -ex ELSE ex) - n2
    IN  IF ok THEN Scaled(IF neg THEN -1 ELSE 1, d, e) ELSE NaN

\* Number(s): white space is trimmed, the empty string is 0
ToNumber(s) ==
    LET t == Trim(s)
    IN  IF t = <<>> THEN [v |-> 0, kind |-> "int"] ELSE ParseDecimal(t)

(***************************************************************************)
(* new URL(s), as z.string().url() uses it: does the basic URL parser      *)
(* accept s without a base URL.  Computed for strings over letters, ":",   *)
(* "/" and " ": every scheme such a string can spell is non-special.       *)
(***************************************************************************)
IsAlpha(c) ==
    c \in {"a", "b", "c", "d", "e", "f", "g", "h", "i", "j", "k", "l", "m",
           "n", "o", "p", "q", "r", "s", "t", "u", "v", "w", "x", "y", "z"}

IsSchemeChar(c) == IsAlpha(c) \/ IsDigit(c) \/ c \in {"+", "-", "."}

RECURSIVE SchemeCharPrefix(_)
SchemeCharPrefix(s) ==
    IF s # <<>> /\ IsSchemeChar(s[1]) THEN 1 + SchemeCharPrefix(Tail(s)) ELSE 0

\* the length of the scheme s starts with (a letter, then scheme characters)
SchemeLen(s) ==
    IF s # <<>> /\ IsAlpha(s[1]) THEN 1 + SchemeCharPrefix(Tail(s)) ELSE 0

\* the part of an authority before the first "/"
RECURSIVE UpToSlash(_)
UpToSlash(s) ==
    IF s = <<>> \/ s[1] = "/" THEN <<>> ELSE <<s[1]>> \o UpToSlash(Tail(s))

\* the index of the first ":" of s, 0 when there is none
RECURSIVE ColonAt(_)
ColonAt(s) ==
    IF s = <<>> THEN 0
    ELSE IF s[1] = ":" THEN 1
    ELSE IF ColonAt(Tail(s)) = 0 THEN 0 ELSE 1 + ColonAt(Tail(s))

\* host state and port state on the authority "host[:port]"
AuthorityOk(auth) ==
    LET c    == ColonAt(auth)
        host == IF c = 0 THEN auth ELSE SubSeq(auth, 1, c - 1)
        port == IF c = 0 THEN <<>> ELSE Drop(auth, c)
    IN  /\ \A i \in 1..Len(host) : ~IsSpace(host[i])
        /\ (c # 0 => host # <<>>)
        /\ \A i \in 1..Len(port) : IsDigit(port[i])

IsUrl(s) ==
    LET t    == Trim(s)
        n    == SchemeLen(t)
        rest == Drop(t, n + 1)
    IN  /\ n >= 1
        /\ Len(t) > n
        /\ t[n + 1] = ":"
        /\ (StartsWith(rest, <<"/", "/">>) => AuthorityOk(UpToSlash(Drop(rest, 2))))

(***************************************************************************)
(* VaultConfigSchema.                                                      *)
(***************************************************************************)
Issue(path, code) == [path |-> path, code |-> code]

\* VAULT_ADDR: z.string().url(...)
AddrIssues(v) ==
    IF ~v.set THEN <<Issue("VAULT_ADDR", "invalid_type")>>
    ELSE IF ~IsUrl(v.s) THEN <<Issue("VAULT_ADDR", "invalid_string")>>
    ELSE <<>>

\* the prefix VAULT_TOKEN is required to start with
TokenPrefix == <<"h", "s", "v", ".">>

\* the shortest VAULT_TOKEN: .min(3)
TokenMinLen == 3

\* VAULT_TOKEN: z.string().min(3).startsWith("hsv.", ...)
TokenIssues(v) ==
    IF ~v.set THEN <<Issue("VAULT_TOKEN", "invalid_type")>>
    ELSE (IF Len(v.s) < TokenMinLen
          THEN <<Issue("VAULT_TOKEN", "too_small")>> ELSE <<>>)
      \o (IF ~StartsWith(v.s, TokenPrefix)
          THEN <<Issue("VAULT_TOKEN", "invalid_string")>> ELSE <<>>)

\* a variant of PortMin: .min(0)
PortMinZero == 1 - 1

PortMin == 1

PortMax == 65535

PortDefault == 3000

\* the checks .int().min(1).max(65535) on the coerced number; NaN is no number
NumberIssues(n) ==
    IF n.kind = "nan" THEN <<Issue("MCP_PORT", "invalid_type")>>
    ELSE (IF n.kind = "float"
          THEN <<Issue("MCP_PORT", "invalid_type")>> ELSE <<>>)
      \o (IF NumLess(n, PortMin)
          THEN <<Issue("MCP_PORT", "too_small")>> ELSE <<>>)
      \o (IF NumGreater(n, PortMax)
          THEN <<Issue("MCP_PORT", "too_big")>> ELSE <<>>)

\* MCP_PORT: z.coerce.number().int().min(1).max(65535).optional().default(3000):
\* the number the schema goes on to check
PortNumber(v) ==
    IF ~v.set THEN [v |-> PortDefault, kind |-> "int"] ELSE ToNumber(v.s)

PortIssues(v) == NumberIssues(PortNumber(v))

\* VaultConfigSchema.parse: the issues of all three fields, in the schema's order
ConfigIssues(addr, token, port) ==
    AddrIssues(addr) \o TokenIssues(token) \o PortIssues(port)

\* the value VaultConfigSchema.parse returns when there is no issue
ParsedConfig(addr, token, port) ==
    [VAULT_ADDR |-> addr.s, VAULT_TOKEN |-> token.s, MCP_PORT |-> PortNumber(port).v]


(***************************************************************************)
(* JavaScript values of a tool call's arguments: a type tag and a token    *)
(* standing for the value.                                                 *)
(***************************************************************************)
Undefined == [v |-> "", t |-> "undefined"]

JsString(v) == [v |-> v, t |-> "string"]

JsNumber(v) == [v |-> v, t |-> "number"]

\* a plain object (a map from strings to values)
JsObject(v) == [v |-> v, t |-> "object"]

JsArray(v) == [v |-> v, t |-> "array"]

\* the fields a tool call's arguments may carry
Fields == {"path", "data", "name", "policy"}

\* does a zod type accept a value: z.string() a string, z.record(z.any()) a
\* plain object (an array, null or undefined is no record)
ZodAccepts(ztype, val) ==
    CASE ztype = "string" -> val.t = "string"
      [] ztype = "record" -> val.t = "object"

(***************************************************************************)
(* registerTools, registerResources, registerPrompts.                      *)
(***************************************************************************)
\* a variant of SecretCreateTool: the schema takes data as a string
SecretCreateToolDataString ==
    [name |-> "secret/create", handler |-> "secretCreate",
     schema |-> [path |-> "string", data |-> "string"]]

\* server.tool("secret/create", {path: z.string(), data: z.record(z.any())}, ...)
SecretCreateTool ==
    [name |-> "secret/create", handler |-> "secretCreate",
     schema |-> [path |-> "string", data |-> "record"]]

\* server.tool("secret/read", {path: z.string()}, ...)
SecretReadTool ==
    [name |-> "secret/read", handler |-> "secretRead",
     schema |-> [path |-> "string"]]

\* server.tool("secret/delete", {path: z.string()}, ...)
SecretDeleteTool ==
    [name |-> "secret/delete", handler |-> "secretDelete",
     schema |-> [path |-> "string"]]

\* server.tool("policy/create", {name: z.string(), policy: z.string()}, ...)
PolicyCreateTool ==
    [name |-> "policy/create", handler |-> "policyCreate",
     schema |-> [name |-> "string", policy |-> "string"]]

\* a variant of RegisterTools: a fifth tool is registered, under secret/list
RegisterToolsExtra ==
    {SecretCreateTool, SecretReadTool, SecretDeleteTool, PolicyCreateTool,
     [name |-> "secret/list", handler |-> "secretRead",
      schema |-> [path |-> "string"]]}

RegisterTools ==
    {SecretCreateTool, SecretReadTool, SecretDeleteTool, PolicyCreateTool}

RegisterResources ==
    {[name |-> "vault-secrets", handler |-> "vaultSecrets", uri |-> "vault://secrets"],
     [name |-> "vault-policies", handler |-> "vaultPolicies", uri |-> "vault://policies"]}

RegisterPrompts ==
    {[name |-> "generate-policy", handler |-> "generatePolicy"]}

\* the registry of the McpServer before anything is registered
EmptyRegistry == [tools |-> {}, resources |-> {}, prompts |-> {}]

\* the registry once the constructor has run its three register calls
ConstructedRegistry ==
    [tools |-> RegisterTools, resources |-> RegisterResources,
     prompts |-> RegisterPrompts]

(***************************************************************************)
(* The tool handlers and resource handlers.  A handler awaits one call of  *)
(* the Vault client and builds its result from what the call returned.     *)
(***************************************************************************)
\* a variant of SecretDataPath: every path is mapped to one location
SecretDataPathFixed(path) == <<"secret/data/", "p1">>

\* a variant of SecretDataPath: the metadata of the secret is addressed
SecretDataPathMetadata(path) == <<"secret/metadata/", path>>

\* `secret/data/${path}`
SecretDataPath(path) == <<"secret/data/", path>>

\* a variant of HandlerCall: secret/read awaits a delete
HandlerCallReadDeletes(h, args) ==
    CASE h = "secretCreate" ->
           [op |-> "write", target |-> SecretDataPath(args.path.v), body |-> args.data.v]
      [] h \in {"secretRead", "secretDelete"} ->
           [op |-> "delete", target |-> SecretDataPath(args.path.v), body |-> ""]
      [] h = "policyCreate" ->
           [op |-> "addPolicy", target |-> <<args.name.v>>, body |-> args.policy.v]
      [] h = "vaultSecrets" ->
           [op |-> "list", target |-> <<"secret/metadata">>, body |-> ""]
      [] h = "vaultPolicies" ->
           [op |-> "listPolicies", target |-> <<>>, body |-> ""]

\* the Vault client call a handler awaits
HandlerCall(h, args) ==
    CASE h = "secretCreate" ->
           [op |-> "write", target |-> SecretDataPath(args.path.v), body |-> args.data.v]
      [] h = "secretRead" ->
           [op |-> "read", target |-> SecretDataPath(args.path.v), body |-> ""]
      [] h = "secretDelete" ->
           [op |-> "delete", target |-> SecretDataPath(args.path.v), body |-> ""]
      [] h = "policyCreate" ->
           [op |-> "addPolicy", target |-> <<args.name.v>>, body |-> args.policy.v]
      [] h = "vaultSecrets" ->
           [op |-> "list", target |-> <<"secret/metadata">>, body |-> ""]
      [] h = "vaultPolicies" ->
           [op |-> "listPolicies", target |-> <<>>, body |-> ""]

\* a variant of MaxAttempts: a failed call is issued once more
MaxAttemptsRetry == 1 + 1

\* how many times a handler issues its call before it gives up: each handler
\* awaits its call once, outside any loop
MaxAttempts == 1

\* what a handler hands back to the server: a value it returns, or an error
\* it throws (the rejection of its promise)
NoText == [prefix |-> "", uri |-> "", arg |-> "", suffix |-> "", json |-> <<>>]

Returned(text) == [kind |-> "return", text |-> text, msg |-> ""]

Thrown(msg) == [kind |-> "throw", text |-> NoText, msg |-> msg]

\* what a call of the Vault client comes back with: a result (its shape in
\* kind, its entries in data) or an error with its message
NoResult == [kind |-> "none", ok |-> TRUE, data |-> <<>>, msg |-> ""]

CallResult(kind, data) == [kind |-> kind, ok |-> TRUE, data |-> data, msg |-> ""]

CallError(msg) == [kind |-> "error", ok |-> FALSE, data |-> <<>>, msg |-> msg]

\* a variant of JsonStringify: the entries of the result are left out
JsonStringifyNoEntries(result) == <<"{", result.kind, "}">>

\* JSON.stringify of a call's result, as a sequence of tokens
JsonStringify(result) ==
    CASE result.kind = "undefined" -> <<"undefined">>
      [] OTHER -> <<"{", result.kind>> \o result.data \o <<"}">>

\* JSON.stringify of an array of strings
JsonArray(items) == <<"[">> \o items \o <<"]">>

ToolText(prefix, arg, suffix, result) ==
    [prefix |-> prefix, uri |-> "", arg |-> arg, suffix |-> suffix,
     json |-> JsonStringify(result)]

ResourceText(uri, json) ==
    [prefix |-> "", uri |-> uri, arg |-> "", suffix |-> "", json |-> json]

\* a variant of SecretsCatch: the catch block returns the text null
SecretsCatchNull == Returned(ResourceText("vault://secrets", <<"null">>))

\* the catch block of the vault-secrets resource
SecretsCatch == Returned(ResourceText("vault://secrets", JsonArray(<<>>)))

\* a variant of HandlerOnResult: secret/delete throws when the call resolves
\* with undefined
HandlerOnResultStrictDelete(h, args, result) ==
    CASE h = "secretCreate" ->
           Returned(ToolText("Secret written at: ", args.path.v, "\n", result))
      [] h = "secretRead" ->
           Returned(ToolText("Secret read at: ", args.path.v, "\n", result))
      [] h = "secretDelete" ->
           IF result.kind = "undefined" THEN Thrown("nothing deleted")
           ELSE Returned(ToolText("Secret deleted at: ", args.path.v, "\n", result))
      [] h = "policyCreate" ->
           Returned(ToolText("Policy '", args.name.v, "' created.\n", result))
      [] h = "vaultSecrets" ->
           IF result.kind \in {"nodata", "undefined"} THEN SecretsCatch
           ELSE Returned(ResourceText("vault://secrets",
                    JsonArray(IF result.kind = "keys" THEN result.data ELSE <<>>)))
      [] h = "vaultPolicies" ->
           Returned(ResourceText("vault://policies", JsonStringify(result)))

\* what a handler does when its awaited call resolves with a result
HandlerOnResult(h, args, result) ==
    CASE h = "secretCreate" ->
           Returned(ToolText("Secret written at: ", args.path.v, "\n", result))
      [] h = "secretRead" ->
           Returned(ToolText("Secret read at: ", args.path.v, "\n", result))
      [] h = "secretDelete" ->
           Returned(ToolText("Secret deleted at: ", args.path.v, "\n", result))
      [] h = "policyCreate" ->
           Returned(ToolText("Policy '", args.name.v, "' created.\n", result))
      [] h = "vaultSecrets" ->
           \* result.data.keys || []: reading .keys of an undefined data (or
           \* .data of an undefined result) throws a TypeError inside the try
           IF result.kind \in {"nodata", "undefined"} THEN SecretsCatch
           ELSE Returned(ResourceText("vault://secrets",
                    JsonArray(IF result.kind = "keys" THEN result.data ELSE <<>>)))
      [] h = "vaultPolicies" ->
           Returned(ResourceText("vault://policies", JsonStringify(result)))

\* a variant of HandlerOnError: every handler catches the error and returns
\* a text about it
HandlerOnErrorSwallow(h, msg) ==
    IF h = "vaultSecrets" THEN SecretsCatch
    ELSE Returned(ToolText("Error: ", msg, "", NoResult))

\* a variant of HandlerOnError: a tool handler ends the process on an error
HandlerOnErrorExit(h, msg) ==
    IF h = "vaultSecrets" THEN SecretsCatch
    ELSE [kind |-> "exit", text |-> NoText, msg |-> msg]

\* a variant of HandlerOnError: secret/read catches the error and returns a
\* text without contents
HandlerOnErrorReadEmpty(h, msg) ==
    CASE h = "vaultSecrets" -> SecretsCatch
      [] h = "secretRead" -> Returned(ToolText("Secret read at: ", "", "\n", NoResult))
      [] OTHER -> Thrown(msg)

\* a variant of HandlerOnError: both resources catch the error and return []
HandlerOnErrorCatchBoth(h, msg) ==
    CASE h = "vaultSecrets" -> SecretsCatch
      [] h = "vaultPolicies" ->
           Returned(ResourceText("vault://policies", JsonArray(<<>>)))
      [] OTHER -> Thrown(msg)

\* a variant of HandlerOnError: the vault-secrets resource has no try/catch
HandlerOnErrorNoCatch(h, msg) == Thrown(msg)

\* what a handler does when its awaited call rejects with an error: only the
\* vault-secrets resource has a try/catch around the call
HandlerOnError(h, msg) ==
    IF h = "vaultSecrets" THEN SecretsCatch ELSE Thrown(msg)

(***************************************************************************)
(* The prompt handler: generate-policy builds a policy document from a     *)
(* path and a comma-separated string of capabilities.  It awaits nothing.  *)
(***************************************************************************)
\* the position of the first comma of s, 0 when s holds none
FirstComma(s) ==
    IF \E i \in 1..Len(s) : s[i] = ","
    THEN CHOOSE i \in 1..Len(s) : s[i] = "," /\ \A j \in 1..(i - 1) : s[j] # ","
    ELSE 0

\* String.prototype.split(","): the pieces between the commas, of which
\* there is always at least one
RECURSIVE SplitComma(_)
SplitComma(s) ==
    LET i == FirstComma(s)
    IN  IF i = 0 THEN <<s>>
        ELSE <<SubSeq(s, 1, i - 1)>> \o SplitComma(Drop(s, i))

\* a variant of CapArray: the pieces are not trimmed
CapArrayNoTrim(capabilities) == SplitComma(capabilities)

\* a variant of CapArray: the empty tokens are left out
CapArrayNoEmpty(capabilities) ==
    LET pieces == SplitComma(capabilities)
    IN  SelectSeq([i \in 1..Len(pieces) |-> Trim(pieces[i])], LAMBDA c : c # <<>>)

\* capabilities.split(",").map((c) => c.trim())
CapArray(capabilities) ==
    LET pieces == SplitComma(capabilities)
    IN  [i \in 1..Len(pieces) |-> Trim(pieces[i])]

\* { path: { [path]: { capabilities: capArray } } }
PolicyDocument(path, capabilities) ==
    [path |-> path, capabilities |-> CapArray(capabilities)]

\* JSON.stringify of a string given by its characters
JsonString(chars) == <<"\"">> \o chars \o <<"\"">>

\* JSON.stringify of the elements of an array of strings
RECURSIVE JsonStrings(_)
JsonStrings(items) ==
    IF items = <<>> THEN <<>>
    ELSE JsonString(Head(items))
           \o (IF Len(items) > 1 THEN <<",">> ELSE <<>>)
           \o JsonStrings(Tail(items))

\* JSON.stringify(policy, null, 2), as a sequence of tokens without the
\* indentation
JsonStringifyPolicy(policy) ==
    <<"{", "path", ":", "{", policy.path, ":", "{", "capabilities", ":", "[">>
      \o JsonStrings(policy.capabilities)
      \o <<"]", "}", "}", "}">>

\* the text of the one message the prompt returns
PromptText(json) ==
    [prefix |-> "", uri |-> "", arg |-> "", suffix |-> "", json |-> json]

\* the handler of generate-policy
GeneratePolicy(path, capabilities) ==
    Returned(PromptText(JsonStringifyPolicy(PolicyDocument(path, capabilities))))

(***************************************************************************)
(* The Vault backend behind the client: a KV v2 mount at secret/ and the   *)
(* policy store.  A secret is absent, live with its data, or soft-deleted. *)
(***************************************************************************)
\* how many calls of the Vault client may be pending at once
MaxInflight == 1

Paths == {"p1", "p2"}

\* the order in which the backend lists keys
PathOrder == <<"p1", "p2">>

Data == {"d1", "d2"}

PolicyNames == {"ro"}

PolicyTexts == {"capabilities = [read]"}

NoSecret == [data |-> "", state |-> "absent"]

\* the error messages of calls that fail for reasons outside the store
TransientErrors == {"connect ECONNREFUSED", "permission denied"}

NotFound == "Status 404"

\* the keys the metadata listing holds, in the backend's order
ListedKeys(store) == SelectSeq(PathOrder, LAMBDA p : store[p].state # "absent")

PolicyOrder == <<"ro">>

ListedPolicies(pols) == SelectSeq(PolicyOrder, LAMBDA n : pols[n] # "")

Outcome(result, store, pols) == [result |-> result, kv |-> store, policies |-> pols]

\* the ways a call can end against the store: its result and the store after it
StoreOutcomes(call, store, pols) ==
    LET p == call.target[Len(call.target)]
    IN  CASE call.op = "write" ->
               {Outcome(CallResult("written", <<>>),
                        [store EXCEPT ![p] = [data |-> call.body, state |-> "live"]],
                        pols)}
          [] call.op = "read" ->
               IF store[p].state = "live"
               THEN {Outcome(CallResult("secret", <<store[p].data>>), store, pols)}
               ELSE {Outcome(CallError(NotFound), store, pols)}
          [] call.op = "delete" ->
               {Outcome(CallResult("undefined", <<>>),
                        [store EXCEPT ![p] =
                            IF @.state = "live" THEN [data |-> "", state |-> "deleted"]
                            ELSE @],
                        pols)}
          [] call.op = "list" ->
               IF ListedKeys(store) = <<>>
               THEN {Outcome(CallError(NotFound), store, pols)}
               ELSE {Outcome(CallResult("keys", ListedKeys(store)), store, pols),
                     Outcome(CallResult("keys", <<>>), store, pols),
                     Outcome(CallResult("nokeys", <<>>), store, pols),
                     Outcome(CallResult("nodata", <<>>), store, pols)}
          [] call.op = "addPolicy" ->
               {Outcome(CallResult("undefined", <<>>), store,
                        [pols EXCEPT ![p] = call.body])}
          [] call.op = "listPolicies" ->
               {Outcome(CallResult("policies", ListedPolicies(pols)), store, pols)}

\* every way a call can end: against the store, or with a transient error
\* that leaves the store as it was
CallOutcomes(call, store, pols) ==
    StoreOutcomes(call, store, pols)
      \cup {Outcome(CallError(m), store, pols) : m \in TransientErrors}

(***************************************************************************)
(* The dispatcher of the server: resolving a tool by name, validating the  *)
(* arguments against its schema, and turning what the handler hands back   *)
(* into the response.                                                      *)
(***************************************************************************)
\* the tools registered under a name, by exact match
LookupTool(reg, name) == {t \in reg.tools : t.name = name}

LookupResource(reg, uri) == {r \in reg.resources : r.uri = uri}

LookupPrompt(reg, name) == {pr \in reg.prompts : pr.name = name}

\* the fields of the schema the arguments violate
InvalidFields(schema, payload) ==
    {f \in DOMAIN schema : ~ZodAccepts(schema[f], payload[f])}

\* the validated arguments: the schema's fields, everything else stripped
ParsedArgs(schema, payload) ==
    [f \in Fields |-> IF f \in DOMAIN schema THEN payload[f] ELSE Undefined]

Response(type, fields, msg, text) ==
    [text |-> text, msg |-> msg, type |-> type, fields |-> fields]

UnknownCommand == Response("UnknownCommand", {}, "", NoText)

InvalidPayload(fields) == Response("InvalidPayload", fields, "", NoText)

\* the response to a tool call whose handler has finished
ToolResponse(hres) ==
    IF hres.kind = "return" THEN Response("Success", {}, "", hres.text)
    ELSE Response("CommandFailure", {}, hres.msg, NoText)

\* the response to a resource read whose handler has finished
ResourceResponse(hres) ==
    IF hres.kind = "return" THEN Response("Contents", {}, "", hres.text)
    ELSE Response("ReadFailure", {}, hres.msg, NoText)

\* the response to a prompt request whose handler has finished
PromptResponse(hres) ==
    IF hres.kind = "return" THEN Response("Messages", {}, "", hres.text)
    ELSE Response("PromptFailure", {}, hres.msg, NoText)

(***************************************************************************)
(* The state.                                                              *)
(***************************************************************************)
VARIABLES
    env,          \* process.env: VAULT_ADDR, VAULT_TOKEN, MCP_PORT
    pc,           \* where the process is: main, construct, start, serving, exited
    exitCode,     \* <<>> while the process runs, <<code>> once it has exited
    report,       \* what main printed about a failed startup
    config,       \* this.config: <<>> until the schema has parsed it
    vaultClient,  \* this.vaultClient: <<>> until the constructor creates it
    registry,     \* the tools, resources and prompts registered with the server
    kv,           \* the backend's secrets
    policies,     \* the backend's policies
    inflight,     \* the invocations whose handler awaits its Vault call
    out,          \* the invocation answered last, with its response
    failed        \* some invocation so far was answered with a failure

vars == <<env, pc, exitCode, report, config, vaultClient, registry, kv, policies,
          inflight, out, failed>>

startupVars == <<env, pc, exitCode, report, config, vaultClient, registry>>

servingVars == <<kv, policies, inflight, out, failed>>

NoReport == [kind |-> "none", fields |-> {}]

NoPayload == [f \in Fields |-> Undefined]

FreeSlot ==
    [kind |-> "none", name |-> "", handler |-> "", args |-> NoPayload,
     payload |-> NoPayload, busy |-> FALSE, calls |-> <<>>, stalled |-> FALSE]

NoOut ==
    [kind |-> "none", name |-> "", result |-> NoResult, capabilities |-> <<>>,
     payload |-> NoPayload, calls |-> <<>>, handlers |-> <<>>,
     resp |-> Response("none", {}, "", NoText)]

\* the pending invocations the transport allows at once
Slots == DOMAIN inflight

FailureTypes ==
    {"UnknownCommand", "InvalidPayload", "CommandFailure", "ReadFailure",
     "PromptFailure"}

(***************************************************************************)
(* Startup: main, the constructor, start.                                  *)
(***************************************************************************)
\* !vaultAddr || !vaultToken
EnvMissing(e) == ~Truthy(e.addr) \/ ~Truthy(e.token)

\* process.exit(1) of main's check of the environment
MissingEnvExitCode == 1

\* a variant of StartupFailureExitCode: the catch block exits with 0
StartupFailureExitZero == 1 - 1

\* process.exit(1) of main's catch block
StartupFailureExitCode == 1

\* main, up to the constructor call: the two required variables are looked up
\* and the process exits when one is missing or empty
Main ==
    /\ pc = "main"
    /\ IF EnvMissing(env)
       THEN /\ pc' = "exited"
            /\ exitCode' = <<MissingEnvExitCode>>
            /\ report' = [kind |-> "missing_env",
                          fields |-> {"VAULT_ADDR", "VAULT_TOKEN"}]
       ELSE /\ pc' = "construct"
            /\ UNCHANGED <<exitCode, report>>
    /\ UNCHANGED <<env, config, vaultClient, registry>>
    /\ UNCHANGED servingVars

\* the fields the constructor's error message lists, one line per issue
IssueFields(issues) == {issues[i].path : i \in 1..Len(issues)}

\* a variant of Construct: the client is created and everything registered
\* before the schema parses the configuration
ConstructClientFirst ==
    /\ pc = "construct"
    /\ vaultClient' = <<[token |-> env.token.s, endpoint |-> env.addr.s]>>
    /\ registry' = ConstructedRegistry
    /\ LET issues == ConfigIssues(env.addr, env.token, env.port)
       IN  IF issues # <<>>
           THEN /\ pc' = "exited"
                /\ exitCode' = <<StartupFailureExitCode>>
                /\ report' = [kind |-> "invalid_config", fields |-> IssueFields(issues)]
                /\ UNCHANGED config
           ELSE /\ config' = <<ParsedConfig(env.addr, env.token, env.port)>>
                /\ pc' = "start"
                /\ UNCHANGED <<exitCode, report>>
    /\ UNCHANGED env
    /\ UNCHANGED servingVars

\* new VaultMcpServer(vaultAddr, vaultToken): the schema parses the
\* configuration, then the client is created and everything is registered;
\* an error thrown by the constructor lands in main's catch block
Construct ==
    /\ pc = "construct"
    /\ LET issues == ConfigIssues(env.addr, env.token, env.port)
       IN  IF issues # <<>>
           THEN /\ pc' = "exited"
                /\ exitCode' = <<StartupFailureExitCode>>
                /\ report' = [kind |-> "invalid_config", fields |-> IssueFields(issues)]
                /\ UNCHANGED <<config, vaultClient, registry>>
           ELSE /\ config' = <<ParsedConfig(env.addr, env.token, env.port)>>
                /\ vaultClient' = <<[token |-> env.token.s, endpoint |-> env.addr.s]>>
                /\ registry' = ConstructedRegistry
                /\ pc' = "start"
                /\ UNCHANGED <<exitCode, report>>
    /\ UNCHANGED env
    /\ UNCHANGED servingVars

\* server.start(): the transport connects and the server serves, or
\* connecting throws and main's catch block exits
Start ==
    /\ pc = "start"
    /\ \/ /\ pc' = "serving"
          /\ UNCHANGED <<exitCode, report>>
       \/ /\ pc' = "exited"
          /\ exitCode' = <<StartupFailureExitCode>>
          /\ report' = [kind |-> "startup_failure", fields |-> {}]
    /\ UNCHANGED <<env, config, vaultClient, registry>>
    /\ UNCHANGED servingVars

(***************************************************************************)
(* Serving: tool calls, resource reads and the Vault calls they await.     *)
(***************************************************************************)
\* the slot a new pending invocation takes
FreeSlots == {i \in Slots : ~inflight[i].busy}

LowestFree == CHOOSE i \in FreeSlots : \A j \in FreeSlots : i <= j

\* an invocation is answered
Answer(kind, name, payload, handlers, calls, result, resp) ==
    /\ out' = [kind |-> kind, name |-> name, result |-> result,
               capabilities |-> <<>>, payload |-> payload, calls |-> calls,
               handlers |-> handlers, resp |-> resp]
    /\ failed' = (failed \/ resp.type \in FailureTypes)

\* the handler of an invocation starts and issues its call
Suspend(kind, name, handler, payload, args) ==
    /\ FreeSlots # {}
    /\ inflight' = [inflight EXCEPT ![LowestFree] =
            [kind |-> kind, name |-> name, handler |-> handler, args |-> args,
             payload |-> payload, busy |-> TRUE,
             calls |-> <<HandlerCall(handler, args)>>, stalled |-> FALSE]]
    /\ UNCHANGED <<out, failed>>

\* a tools/call request arrives: the tool is resolved, the arguments are
\* validated, and the handler runs up to its awaited Vault call
CallTool(name, payload) ==
    /\ pc = "serving"
    /\ LET found == LookupTool(registry, name)
       IN  IF found = {}
           THEN /\ Answer("tool", name, payload, <<>>, <<>>, NoResult, UnknownCommand)
                /\ UNCHANGED inflight
           ELSE LET tool == CHOOSE t \in found : TRUE
                    bad  == InvalidFields(tool.schema, payload)
                IN  IF bad # {}
                    THEN /\ Answer("tool", name, payload, <<>>, <<>>, NoResult,
                                   InvalidPayload(bad))
                         /\ UNCHANGED inflight
                    ELSE Suspend("tool", name, tool.handler, payload,
                                 ParsedArgs(tool.schema, payload))
    /\ UNCHANGED <<kv, policies>>
    /\ UNCHANGED startupVars

\* a resources/read request arrives
ReadResource(uri) ==
    /\ pc = "serving"
    /\ LET found == LookupResource(registry, uri)
       IN  IF found = {}
           THEN /\ Answer("resource", uri, NoPayload, <<>>, <<>>, NoResult,
                          Response("ReadFailure", {}, "Resource not found", NoText))
                /\ UNCHANGED inflight
           ELSE Suspend("resource", uri, (CHOOSE r \in found : TRUE).handler,
                        NoPayload, NoPayload)
    /\ UNCHANGED <<kv, policies>>
    /\ UNCHANGED startupVars

\* a prompts/get request arrives: the prompt is resolved and its handler
\* runs to its end, without a call of the Vault client
GetPrompt(name, path, capabilities) ==
    /\ pc = "serving"
    /\ LET found == LookupPrompt(registry, name)
       IN  /\ found # {}
           /\ LET hres == GeneratePolicy(path, capabilities)
                   resp == PromptResponse(hres)
               IN  /\ out' = [kind |-> "prompt", name |-> name,
                              result |-> NoResult,
                              capabilities |-> capabilities,
                              payload |-> [NoPayload EXCEPT !.path = JsString(path)],
                              calls |-> <<>>,
                              handlers |-> <<(CHOOSE pr \in found : TRUE).handler>>,
                              resp |-> resp]
                   /\ failed' = (failed \/ resp.type \in FailureTypes)
    /\ UNCHANGED <<kv, policies, inflight>>
    /\ UNCHANGED startupVars

\* the handler of slot i has finished with hres
Finish(i, result, hres) ==
    LET slot == inflight[i]
    IN  /\ Answer(slot.kind, slot.name, slot.payload, <<slot.handler>>, slot.calls,
                  result,
                  IF slot.kind = "tool" THEN ToolResponse(hres)
                  ELSE ResourceResponse(hres))
        /\ inflight' = [inflight EXCEPT ![i] = FreeSlot]
        /\ pc' = IF hres.kind = "exit" THEN "exited" ELSE pc
        /\ exitCode' = IF hres.kind = "exit" THEN <<1>> ELSE exitCode

\* a variant of CallResolves: the calls are answered one after the other, a
\* call only when no call of a lower slot is pending
CallResolvesInTurn(i) ==
    /\ pc = "serving"
    /\ inflight[i].busy
    /\ ~inflight[i].stalled
    /\ \A j \in Slots : inflight[j].busy => i <= j
    /\ LET slot == inflight[i]
           call == slot.calls[Len(slot.calls)]
       IN  \E o \in CallOutcomes(call, kv, policies) :
              /\ o.result.ok
              /\ kv' = o.kv
              /\ policies' = o.policies
              /\ Finish(i, o.result, HandlerOnResult(slot.handler, slot.args, o.result))
    /\ UNCHANGED <<env, report, config, vaultClient, registry>>

\* a variant of CallResolves: the handlers keep their arguments in one place
\* they share, which holds those of the invocation pending in the last slot
CallResolvesShared(i) ==
    /\ pc = "serving"
    /\ inflight[i].busy
    /\ ~inflight[i].stalled
    /\ LET slot   == inflight[i]
           call   == slot.calls[Len(slot.calls)]
           last   == CHOOSE j \in Slots :
                        inflight[j].busy /\ \A k \in Slots : inflight[k].busy => k <= j
       IN  \E o \in CallOutcomes(call, kv, policies) :
              /\ o.result.ok
              /\ kv' = o.kv
              /\ policies' = o.policies
              /\ Finish(i, o.result,
                        HandlerOnResult(slot.handler, inflight[last].args, o.result))
    /\ UNCHANGED <<env, report, config, vaultClient, registry>>

\* the Vault call slot i awaits resolves
CallResolves(i) ==
    /\ pc = "serving"
    /\ inflight[i].busy
    /\ ~inflight[i].stalled
    /\ LET slot == inflight[i]
           call == slot.calls[Len(slot.calls)]
       IN  \E o \in CallOutcomes(call, kv, policies) :
              /\ o.result.ok
              /\ kv' = o.kv
              /\ policies' = o.policies
              /\ Finish(i, o.result, HandlerOnResult(slot.handler, slot.args, o.result))
    /\ UNCHANGED <<env, report, config, vaultClient, registry>>

\* a variant of CallRejects: a handler whose call failed drops the client
CallRejectsDropsClient(i) ==
    /\ pc = "serving"
    /\ inflight[i].busy
    /\ ~inflight[i].stalled
    /\ LET slot == inflight[i]
           call == slot.calls[Len(slot.calls)]
       IN  \E o \in CallOutcomes(call, kv, policies) :
              /\ ~o.result.ok
              /\ kv' = o.kv
              /\ policies' = o.policies
              /\ Finish(i, o.result, HandlerOnError(slot.handler, o.result.msg))
    /\ vaultClient' = <<>>
    /\ UNCHANGED <<env, report, config, registry>>

\* the Vault call slot i awaits rejects
CallRejects(i) ==
    /\ pc = "serving"
    /\ inflight[i].busy
    /\ ~inflight[i].stalled
    /\ LET slot == inflight[i]
           call == slot.calls[Len(slot.calls)]
       IN  \E o \in CallOutcomes(call, kv, policies) :
              /\ ~o.result.ok
              /\ kv' = o.kv
              /\ policies' = o.policies
              /\ IF Len(slot.calls) < MaxAttempts
                 THEN /\ inflight' = [inflight EXCEPT ![i].calls = Append(@, call)]
                      /\ UNCHANGED <<out, failed, pc, exitCode>>
                 ELSE Finish(i, o.result, HandlerOnError(slot.handler, o.result.msg))
    /\ UNCHANGED <<env, report, config, vaultClient, registry>>

\* the backend stops answering the call slot i awaits: the call neither
\* resolves nor rejects from now on
BackendStalls(i) ==
    /\ pc = "serving"
    /\ inflight[i].busy
    /\ ~inflight[i].stalled
    /\ inflight' = [inflight EXCEPT ![i].stalled = TRUE]
    /\ UNCHANGED <<kv, policies, out, failed>>
    /\ UNCHANGED startupVars

(***************************************************************************)
(* The requests and the environments the model draws from.                 *)
(***************************************************************************)
UnknownNames == {"secret/list", "Secret/Read"}

ToolNames == {t.name : t \in RegisterTools}

Payload(path, data, name, policy) ==
    [path |-> path, name |-> name, data |-> data, policy |-> policy]

PathValues == {JsString(p) : p \in Paths}

\* values z.string() rejects
NotStrings == {JsNumber("7"), Undefined}

\* values z.record(z.any()) rejects
NotRecords == {JsString("d1"), JsArray("d1"), Undefined}

\* the arguments tried with a tool name
Payloads(name) ==
    CASE name = "secret/create" ->
           {Payload(p, JsObject(d), Undefined, Undefined) : p \in PathValues, d \in Data}
             \cup {Payload(p, JsObject("d1"), Undefined, Undefined) : p \in NotStrings}
             \cup {Payload(JsString("p1"), d, Undefined, Undefined) : d \in NotRecords}
             \cup {NoPayload}
      [] name = "policy/create" ->
           {Payload(Undefined, Undefined, JsString(n), JsString(t)) :
               n \in PolicyNames, t \in PolicyTexts}
             \cup {Payload(Undefined, Undefined, n, JsString("t")) : n \in NotStrings}
             \cup {Payload(Undefined, Undefined, JsString("ro"), t) : t \in NotStrings}
      [] name \in UnknownNames ->
           {Payload(JsString("p1"), Undefined, Undefined, Undefined)}
      [] OTHER ->
           {Payload(p, Undefined, Undefined, Undefined) : p \in PathValues \cup NotStrings}

ResourceUris == {"vault://secrets", "vault://policies", "vault://other"}

PromptNames == {pr.name : pr \in RegisterPrompts}

\* the two capability strings of the specification: "r, l" and "r,l"
CapsSamples == {<<"r", ",", " ", "l">>, <<"r", ",", "l">>}

GoodAddr == <<"h", ":", "/", "/", "h">>

BadAddr == <<"h">>

\* a token with the prefix the schema asks for
SchemaToken == <<"h", "s", "v", ".", "h">>

\* a token of the form the README gives: hvs.<token>
ReadmePrefix == <<"h", "v", "s", ".">>

ReadmeToken == ReadmePrefix \o <<"h">>

Env(addr, token, port) == [port |-> port, addr |-> addr, token |-> token]

EnvSamples ==
    {Env(EnvStr(GoodAddr), EnvStr(SchemaToken), Unset),
     Env(EnvStr(GoodAddr), EnvStr(ReadmeToken), Unset),
     Env(EnvStr(GoodAddr), EnvStr(SchemaToken), EnvStr(<<"0">>)),
     Env(EnvStr(BadAddr), EnvStr(SchemaToken), Unset),
     Env(Unset, EnvStr(SchemaToken), Unset),
     Env(EnvStr(GoodAddr), Unset, EnvStr(<<"0">>)),
     Env(EnvStr(GoodAddr), EnvStr(<<>>), Unset)}

InitRest ==
    /\ pc = "main"
    /\ exitCode = <<>>
    /\ report = NoReport
    /\ config = <<>>
    /\ vaultClient = <<>>
    /\ registry = EmptyRegistry
    /\ kv = [p \in Paths |-> NoSecret]
    /\ policies = [n \in PolicyNames |-> ""]
    /\ out = NoOut
    /\ failed = FALSE

\* no invocation is pending, and at most n can be
InitSlots(n) == inflight = [i \in 1..n |-> FreeSlot]

Init ==
    /\ env \in EnvSamples
    /\ InitRest
    /\ InitSlots(MaxInflight)

Next ==
    \/ Main
    \/ Construct
    \/ Start
    \/ \E name \in ToolNames \cup UnknownNames : \E payload \in Payloads(name) :
          CallTool(name, payload)
    \/ \E uri \in ResourceUris : ReadResource(uri)
    \/ \E name \in PromptNames : \E path \in Paths : \E c \in CapsSamples :
          GetPrompt(name, path, c)
    \/ \E i \in Slots : CallResolves(i)
    \/ \E i \in Slots : CallRejects(i)

Spec == Init /\ [][Next]_vars

(***************************************************************************)
(* The startup alone, over every environment up to the bounds: one of the  *)
(* three variables ranges over all strings of its alphabet, the other two  *)
(* over samples.                                                           *)
(***************************************************************************)
AddrAlphabet == {"h", ":", "/", " "}

TokenAlphabet == {"h", "s", "v", "."}

PortAlphabet == {"0", "1", "7", "e", "-", ".", " "}

AddrSamples == {Unset, EnvStr(<<>>), EnvStr(GoodAddr), EnvStr(BadAddr)}

TokenSamples == {Unset, EnvStr(<<>>), EnvStr(SchemaToken), EnvStr(ReadmeToken)}

PortSamples == {Unset, EnvStr(<<"1">>), EnvStr(<<"0">>), EnvStr(<<"7", "e", "7">>)}

AllAddrs == {EnvStr(s) : s \in StringsUpTo(AddrAlphabet, MaxAddrLen)}

AllTokens == {EnvStr(s) : s \in StringsUpTo(TokenAlphabet, MaxTokenLen)}

AllPorts == {EnvStr(s) : s \in StringsUpTo(PortAlphabet, MaxPortLen)}

InitConfig ==
    /\ \/ env \in {Env(a, t, p) : a \in AllAddrs, t \in TokenSamples, p \in PortSamples}
       \/ env \in {Env(a, t, p) : a \in AddrSamples, t \in AllTokens, p \in PortSamples}
       \/ env \in {Env(a, t, p) : a \in AddrSamples, t \in TokenSamples, p \in AllPorts}
    /\ InitRest
    /\ InitSlots(MaxInflight)

NextConfig ==
    \/ Main
    \/ Construct
    \/ Start

SpecConfig == InitConfig /\ [][NextConfig]_vars

(***************************************************************************)
(* The prompt alone, over every capabilities string up to the bound; and   *)
(* the policies alone, with two rule texts for one name.                   *)
(***************************************************************************)
CapsAlphabet == {"r", "l", ",", " "}

AllCaps == StringsUpTo(CapsAlphabet, MaxCapsLen)

InitAccepted ==
    /\ env = Env(EnvStr(GoodAddr), EnvStr(SchemaToken), Unset)
    /\ InitRest
    /\ InitSlots(MaxInflight)

NextPrompt ==
    \/ Main
    \/ Construct
    \/ Start
    \/ \E name \in PromptNames : \E path \in Paths : \E c \in AllCaps :
          GetPrompt(name, path, c)

SpecPrompt == InitAccepted /\ [][NextPrompt]_vars

\* the rule texts written under one name, one after the other
OverwriteTexts == PolicyTexts \cup {"capabilities = [list]"}

NextPolicy ==
    \/ Main
    \/ Construct
    \/ Start
    \/ \E n \in PolicyNames : \E t \in OverwriteTexts :
          CallTool("policy/create",
                   Payload(Undefined, Undefined, JsString(n), JsString(t)))
    \/ ReadResource("vault://policies")
    \/ \E i \in Slots : CallResolves(i)
    \/ \E i \in Slots : CallRejects(i)

SpecPolicy == InitAccepted /\ [][NextPolicy]_vars

(***************************************************************************)
(* The commands under a transport that pipelines its requests: a request   *)
(* is dispatched while the handlers of others await their calls.           *)
(***************************************************************************)
\* the invocations a pipelining transport leaves pending at once
MaxOverlap == MaxInflight + 1

OverlapRequests ==
    {<<"secret/create", Payload(JsString("p1"), JsObject("d1"), Undefined, Undefined)>>,
     <<"secret/create", Payload(JsString("p1"), JsObject("d2"), Undefined, Undefined)>>,
     <<"secret/create", Payload(JsString("p2"), JsObject("d2"), Undefined, Undefined)>>,
     <<"secret/read", Payload(JsString("p1"), Undefined, Undefined, Undefined)>>,
     <<"secret/read", Payload(JsString("p2"), Undefined, Undefined, Undefined)>>,
     <<"secret/delete", Payload(JsString("p1"), Undefined, Undefined, Undefined)>>,
     <<"policy/create",
       Payload(Undefined, Undefined, JsString("ro"), JsString("capabilities = [read]"))>>}

InitOverlap ==
    /\ env = Env(EnvStr(GoodAddr), EnvStr(SchemaToken), Unset)
    /\ InitRest
    /\ InitSlots(MaxOverlap)

NextOverlap ==
    \/ Main
    \/ Construct
    \/ Start
    \/ \E r \in OverlapRequests : CallTool(r[1], r[2])
    \/ \E i \in Slots : CallResolves(i)
    \/ \E i \in Slots : CallRejects(i)

SpecOverlap == InitOverlap /\ [][NextOverlap]_vars

(***************************************************************************)
(* The commands against a backend that may stop answering a call.  The     *)
(* process takes every step it can take, and a call the backend has not    *)
(* stopped answering resolves or rejects in the end.                       *)
(***************************************************************************)
NextTimeout ==
    \/ Main
    \/ Construct
    \/ Start
    \/ \E r \in OverlapRequests : CallTool(r[1], r[2])
    \/ \E i \in Slots : CallResolves(i)
    \/ \E i \in Slots : CallRejects(i)
    \/ \E i \in Slots : BackendStalls(i)

SpecTimeout ==
    /\ InitAccepted
    /\ [][NextTimeout]_vars
    /\ WF_vars(Main)
    /\ WF_vars(Construct)
    /\ WF_vars(Start)
    /\ WF_vars(\E i \in Slots : CallResolves(i) \/ CallRejects(i))

(***************************************************************************)
(* The properties.                                                         *)
(***************************************************************************)
\* the four command names of the specification
CommandNames == {"secret/create", "secret/read", "secret/delete", "policy/create"}

\* a payload misses a required field of the command or carries it with the
\* wrong type
Violates(name, payload) ==
    \/ /\ name \in {"secret/create", "secret/read", "secret/delete"}
       /\ payload.path.t # "string"
    \/ /\ name = "secret/create"
       /\ payload.data.t # "object"
    \/ /\ name = "policy/create"
       /\ (payload.name.t # "string" \/ payload.policy.t # "string")

\* the handler and the backend operation of each command
CommandHandler(name) ==
    CASE name = "secret/create" -> "secretCreate"
      [] name = "secret/read"   -> "secretRead"
      [] name = "secret/delete" -> "secretDelete"
      [] name = "policy/create" -> "policyCreate"

CommandOp(name) ==
    CASE name = "secret/create" -> "write"
      [] name = "secret/read"   -> "read"
      [] name = "secret/delete" -> "delete"
      [] name = "policy/create" -> "addPolicy"

\* C1: a tool call whose name is none of the four registered names is answered
\* with UnknownCommand, runs no handler and issues no backend call, and no
\* handler is ever pending for such a name.
C1_UnknownCommand ==
    /\ (out.kind = "tool" /\ out.name \notin CommandNames) =>
          /\ out.resp.type = "UnknownCommand"
          /\ out.handlers = <<>>
          /\ out.calls = <<>>
    /\ \A i \in Slots :
          (inflight[i].busy /\ inflight[i].kind = "tool") =>
              inflight[i].name \in CommandNames

C1_Witness ==
    /\ out.kind = "tool"
    /\ out.name = "secret/list"
    /\ out.resp.type = "UnknownCommand"
    /\ out.calls = <<>>

\* C2: a call of a registered command whose payload misses a required field
\* or carries a wrong-typed one is answered with InvalidPayload, with no
\* handler run and no backend call issued, and no handler is ever pending
\* with such a payload.
C2_InvalidPayload ==
    /\ (out.kind = "tool" /\ out.name \in CommandNames
          /\ Violates(out.name, out.payload)) =>
          /\ out.resp.type = "InvalidPayload"
          /\ out.handlers = <<>>
          /\ out.calls = <<>>
    /\ \A i \in Slots :
          (inflight[i].busy /\ inflight[i].kind = "tool") =>
              ~Violates(inflight[i].name, inflight[i].payload)

C2_Witness ==
    /\ out.kind = "tool"
    /\ out.name = "secret/create"
    /\ out.payload.path.t = "string"
    /\ out.payload.data.t = "string"
    /\ out.resp.type = "InvalidPayload"

\* C3: when the backend call of a command fails, the invocation is answered
\* with CommandFailure carrying the backend's message unchanged, never with
\* a success, and the process keeps serving.
C3_CommandFailure ==
    (out.kind = "tool" /\ out.calls # <<>> /\ ~out.result.ok) =>
        /\ out.resp.type = "CommandFailure"
        /\ out.resp.msg = out.result.msg
        /\ pc = "serving"
        /\ exitCode = <<>>

C3_Witness ==
    /\ out.kind = "tool"
    /\ out.name = "secret/read"
    /\ ~out.result.ok
    /\ out.result.msg = "Status 404"
    /\ out.resp.type = "CommandFailure"

\* C4: whatever invocations have failed, the registry is the one the
\* constructor built and the process still serves, and a schema-conforming
\* call of a registered command is run by that command's handler and
\* answered from its own arguments and its own backend result.
C4_FaultIsolation ==
    /\ pc = "serving" => registry = ConstructedRegistry
    /\ failed => (pc = "serving" /\ exitCode = <<>>)
    /\ (out.kind = "tool" /\ out.name \in CommandNames
          /\ ~Violates(out.name, out.payload)) =>
          /\ out.handlers = <<CommandHandler(out.name)>>
          /\ out.resp.type = (IF out.result.ok THEN "Success" ELSE "CommandFailure")
          /\ out.result.ok =>
                /\ out.resp.text.arg =
                      (IF out.name = "policy/create" THEN out.payload.name.v
                       ELSE out.payload.path.v)
                /\ out.resp.text.json = JsonStringify(out.result)

C4_Witness ==
    /\ failed
    /\ pc = "serving"
    /\ out.kind = "tool"
    /\ out.resp.type = "Success"

\* C5: a schema-conforming call of a registered command runs the handler
\* registered under its name once, and the handler issues one backend call,
\* the command's own, also when that call fails.
C5_OneHandlerOneCall ==
    /\ (out.kind = "tool" /\ out.name \in CommandNames
          /\ ~Violates(out.name, out.payload)) =>
          /\ out.handlers = <<CommandHandler(out.name)>>
          /\ Len(out.calls) = 1
          /\ out.calls[1].op = CommandOp(out.name)
    /\ \A i \in Slots :
          (inflight[i].busy /\ inflight[i].kind = "tool") =>
              /\ Len(inflight[i].calls) = 1
              /\ inflight[i].calls[1].op = CommandOp(inflight[i].name)

C5_Witness ==
    /\ out.kind = "tool"
    /\ out.name = "secret/create"
    /\ ~out.result.ok
    /\ out.result.msg = "connect ECONNREFUSED"
    /\ Len(out.calls) = 1
    /\ out.resp.type = "CommandFailure"

\* main and the constructor have run: the startup has passed or failed the
\* checks of the configuration
Validated == pc \notin {"main", "construct"}

\* the well-formed configuration of the specification: the address a URL, the
\* token non-empty with the backend's prefix hvs., the port absent or an
\* integer in 1..65535
AddrWellFormed(v) == v.set /\ IsUrl(v.s)

TokenWellFormed(v) ==
    v.set /\ StartsWith(v.s, ReadmePrefix) /\ Len(v.s) > Len(ReadmePrefix)

PortWellFormed(v) ==
    ~v.set \/ (ToNumber(v.s).kind = "int" /\ ToNumber(v.s).v \in 1..65535)

ViolatedFields(e) ==
    (IF AddrWellFormed(e.addr) THEN {} ELSE {"VAULT_ADDR"})
      \cup (IF TokenWellFormed(e.token) THEN {} ELSE {"VAULT_TOKEN"})
      \cup (IF PortWellFormed(e.port) THEN {} ELSE {"MCP_PORT"})

\* C6: a well-formed (address, token, port) passes the validation of the
\* configuration, and a malformed or missing one ends the startup with one
\* report that names every violated field.  Stated for the tokens on which
\* the schema and the hvs. convention agree; C7 is about the others.
C6_EveryViolatedFieldReported ==
    (Validated /\ (TokenWellFormed(env.token) <=> TokenIssues(env.token) = <<>>)) =>
        IF ViolatedFields(env) = {}
        THEN report.kind \notin {"missing_env", "invalid_config"}
        ELSE /\ pc = "exited"
             /\ report.kind \in {"missing_env", "invalid_config"}
             /\ ViolatedFields(env) \subseteq report.fields

\* C7: a configuration written as the README instructs (VAULT_ADDR a URL,
\* VAULT_TOKEN of the form hvs.<token>) passes the validation, and the
\* server serves unless connecting the transport fails.
C7_ReadmeConfigStarts ==
    (Validated /\ AddrWellFormed(env.addr) /\ TokenWellFormed(env.token)
       /\ PortWellFormed(env.port)) =>
        /\ report.kind \notin {"missing_env", "invalid_config"}
        /\ config # <<>>

\* no invocation has been dispatched or answered
NothingDispatched ==
    /\ out = NoOut
    /\ \A i \in Slots : ~inflight[i].busy
    /\ ~failed

\* C8: when VAULT_ADDR or VAULT_TOKEN is missing, a field of the
\* configuration is invalid, or connecting the transport fails, the process
\* exits with code 1 and has neither served nor dispatched an invocation.
C8_StartupFailureExits ==
    /\ (Validated /\ (~Truthy(env.addr) \/ ~Truthy(env.token)
                        \/ ConfigIssues(env.addr, env.token, env.port) # <<>>)) =>
          pc = "exited"
    /\ report.kind # "none" => pc = "exited"
    /\ pc = "exited" => (exitCode = <<1>> /\ report.kind # "none" /\ NothingDispatched)
    /\ pc \in {"main", "construct", "start"} => NothingDispatched

C8_Witness ==
    /\ pc = "exited"
    /\ report.kind = "startup_failure"
    /\ exitCode = <<1>>
    /\ NothingDispatched

\* C9: the validated port is an integer in 1..65535: 3000 when MCP_PORT is
\* absent, the value of MCP_PORT when that is an integer in the range; a
\* value outside the range, not an integer or not a number is reported as a
\* violation of MCP_PORT.
C9_PortRange ==
    /\ config # <<>> =>
          /\ config[1].MCP_PORT \in 1..65535
          /\ ~env.port.set => config[1].MCP_PORT = 3000
          /\ env.port.set => ToNumber(env.port.s) = [v |-> config[1].MCP_PORT, kind |-> "int"]
    /\ (pc \notin {"main", "construct"} /\ report.kind # "missing_env") =>
          IF PortWellFormed(env.port)
          THEN "MCP_PORT" \notin report.fields
          ELSE /\ config = <<>>
               /\ report.kind = "invalid_config"
               /\ "MCP_PORT" \in report.fields

C9_Witness ==
    /\ config # <<>>
    /\ env.port = EnvStr(<<"7", "e", "1">>)
    /\ config[1].MCP_PORT = 70

\* C10: a read of vault://secrets is always answered with contents, and when
\* the backend's list call fails, whatever the error, the contents are the
\* empty list [] for vault://secrets.
C10_SecretsListingNeverFails ==
    (out.kind = "resource" /\ out.name = "vault://secrets") =>
        /\ out.resp.type = "Contents"
        /\ out.resp.text.uri = "vault://secrets"
        /\ ~out.result.ok => out.resp.text.json = <<"[", "]">>

C10_Witness ==
    /\ out.kind = "resource"
    /\ out.name = "vault://secrets"
    /\ ~out.result.ok
    /\ out.result.msg = "Status 404"
    /\ out.resp.type = "Contents"
    /\ out.resp.text.json = <<"[", "]">>

\* C11: when the backend's list-policies call fails, the read of
\* vault://policies is answered with a failure that carries the backend's
\* error message unchanged, never with contents (an empty or partial list).
C11_PoliciesListingPropagates ==
    (out.kind = "resource" /\ out.name = "vault://policies" /\ ~out.result.ok) =>
        /\ out.calls # <<>>
        /\ out.calls[1].op = "listPolicies"
        /\ out.resp.type = "ReadFailure"
        /\ out.resp.msg = out.result.msg
        /\ out.resp.text = NoText

C11_Witness ==
    /\ out.kind = "resource"
    /\ out.name = "vault://policies"
    /\ ~out.result.ok
    /\ out.result.msg = "permission denied"
    /\ out.resp.type = "ReadFailure"
    /\ out.resp.msg = "permission denied"

\* the positions of the commas of a capabilities string
Commas(s) == {i \in 1..Len(s) : s[i] = ","}

\* the k-th token of s: the characters that have k - 1 commas before them
\* and are no comma themselves
Token(s, k) ==
    LET at == {i \in 1..Len(s) :
                  /\ s[i] # ","
                  /\ Cardinality({j \in Commas(s) : j < i}) = k - 1}
    IN  IF at = {} THEN <<>>
        ELSE LET lo == CHOOSE i \in at : \A j \in at : i <= j
             IN  [i \in 1..Cardinality(at) |-> s[lo + i - 1]]

\* a token without the white space before its first and after its last
\* character that is no white space
Stripped(t) ==
    LET at == {i \in 1..Len(t) : t[i] # " "}
    IN  IF at = {} THEN <<>>
        ELSE SubSeq(t, CHOOSE i \in at : \A j \in at : i <= j,
                       CHOOSE i \in at : \A j \in at : i >= j)

\* the list the specification asks for: one stripped token per piece, in
\* the order of the string, duplicates and unknown names kept
ExpectedCaps(s) == [k \in 1..(Cardinality(Commas(s)) + 1) |-> Stripped(Token(s, k))]

\* the tokens of a list, written with a comma between them and nothing else
RECURSIVE JoinComma(_)
JoinComma(list) ==
    IF Len(list) = 1 THEN list[1]
    ELSE list[1] \o <<",">> \o JoinComma(Tail(list))

\* C12: the prompt answers with the document { path: { <path>: {
\* capabilities: L } } }, L being the tokens between the commas of the
\* capabilities string, each stripped of the white space around it, in the
\* order of the string, with duplicates and unknown names kept; the string
\* written without white space around its tokens gives the same document.
C12_PromptDocument ==
    out.kind = "prompt" =>
        /\ out.resp.type = "Messages"
        /\ out.resp.text.json =
              JsonStringifyPolicy([path |-> out.payload.path.v,
                                   capabilities |-> ExpectedCaps(out.capabilities)])
        /\ out.resp.text =
              GeneratePolicy(out.payload.path.v,
                             JoinComma(ExpectedCaps(out.capabilities))).text

C12_Witness ==
    /\ out.kind = "prompt"
    /\ out.payload.path.v = "p1"
    /\ out.capabilities = <<"r", ",", " ", "l">>
    /\ out.resp.text.json =
          <<"{", "path", ":", "{", "p1", ":", "{", "capabilities", ":", "[",
            "\"", "r", "\"", ",", "\"", "l", "\"", "]", "}", "}", "}">>

\* the invocation of slot i is answered in this step
Answered(i) == inflight[i].busy /\ ~inflight'[i].busy

\* the backend served the call of the invocation answered in this step: the
\* call did not fail for a reason of its own (backend unreachable, token
\* not permitted), which is the case of C3
Served == out'.result.msg \notin TransientErrors

\* the path a secret command of slot i names
PathOf(i) == inflight[i].payload.path.v

\* token t occurs in a serialised text
Contains(json, t) == \E k \in 1..Len(json) : json[k] = t

\* C13: a successful secret/create at path p with data d makes d the live
\* secret of p, over the one a former create left; the secret of p changes
\* only when a secret/create or secret/delete at p succeeds; and every
\* secret/read at p which the backend serves while d is the live secret of p
\* succeeds with a result that contains d.
C13_ReadAfterCreate ==
    [][/\ \A i \in Slots :
             (Answered(i) /\ inflight[i].name = "secret/create"
                /\ out'.resp.type = "Success") =>
                 kv'[PathOf(i)] =
                    [data |-> inflight[i].payload.data.v, state |-> "live"]
       /\ \A p \in Paths :
             kv'[p] # kv[p] =>
                 \E i \in Slots :
                    /\ Answered(i)
                    /\ inflight[i].name \in {"secret/create", "secret/delete"}
                    /\ PathOf(i) = p
                    /\ out'.resp.type = "Success"
       /\ \A i \in Slots :
             (Answered(i) /\ inflight[i].name = "secret/read" /\ Served
                /\ kv[PathOf(i)].state = "live") =>
                 /\ out'.resp.type = "Success"
                 /\ out'.resp.text.prefix = "Secret read at: "
                 /\ out'.resp.text.arg = PathOf(i)
                 /\ out'.resp.text.json = <<"{", "secret", kv[PathOf(i)].data, "}">>
      ]_vars

C13_Witness ==
    /\ out.kind = "tool"
    /\ out.name = "secret/read"
    /\ out.payload.path.v = "p2"
    /\ out.resp.type = "Success"
    /\ Contains(out.resp.text.json, "d2")
    /\ kv["p2"] = [data |-> "d2", state |-> "live"]
    /\ kv["p1"] = [data |-> "d1", state |-> "live"]

\* C14: a secret/read at a path that holds no live secret, never written or
\* written and then deleted, is answered with a failure and never with a
\* success; the failure is the backend's not-found whenever the backend
\* serves the call; the read changes no secret.
C14_ReadOfAbsentFails ==
    [][\A i \in Slots :
          (Answered(i) /\ inflight[i].name = "secret/read"
             /\ kv[PathOf(i)].state # "live") =>
              /\ out'.resp.type = "CommandFailure"
              /\ out'.resp.text = NoText
              /\ out'.resp.msg = out'.result.msg
              /\ Served => out'.resp.msg = NotFound
              /\ kv' = kv
      ]_vars

C14_Witness ==
    /\ out.kind = "tool"
    /\ out.name = "secret/read"
    /\ out.payload.path.v = "p1"
    /\ kv["p1"].state = "deleted"
    /\ out.resp.type = "CommandFailure"
    /\ out.resp.msg = NotFound

\* C15: a secret/delete at a path never written, which the backend serves,
\* is answered with the confirmation for that path and leaves the path
\* never written, so that the same delete again is answered the same way.
C15_DeleteOfAbsentConfirms ==
    [][\A i \in Slots :
          (Answered(i) /\ inflight[i].name = "secret/delete" /\ Served
             /\ kv[PathOf(i)].state = "absent") =>
              /\ out'.resp.type = "Success"
              /\ out'.resp.text.prefix = "Secret deleted at: "
              /\ out'.resp.text.arg = PathOf(i)
              /\ kv' = kv
      ]_vars

C15_Witness ==
    /\ out.kind = "tool"
    /\ out.name = "secret/delete"
    /\ out.payload.path.v = "p1"
    /\ out.resp.type = "Success"
    /\ out.resp.text.prefix = "Secret deleted at: "
    /\ kv["p1"].state = "absent"

\* how often token t occurs in a serialised text
Occurrences(json, t) == Cardinality({k \in 1..Len(json) : json[k] = t})

\* C16: a successful policy/create with name n makes its rule text the
\* policy n, over the text a former create left; a policy once created is
\* never removed; and every read of vault://policies that succeeds while
\* policy n exists lists n, once.
C16_PolicyListed ==
    [][/\ \A i \in Slots :
             (Answered(i) /\ inflight[i].name = "policy/create"
                /\ out'.resp.type = "Success") =>
                 policies'[inflight[i].payload.name.v] = inflight[i].payload.policy.v
       /\ \A n \in PolicyNames : policies[n] # "" => policies'[n] # ""
       /\ \A i \in Slots :
             (Answered(i) /\ inflight[i].name = "vault://policies"
                /\ out'.resp.type = "Contents") =>
                 \A n \in PolicyNames :
                    policies[n] # "" => Occurrences(out'.resp.text.json, n) = 1
      ]_vars

C16_Witness ==
    /\ out.kind = "resource"
    /\ out.name = "vault://policies"
    /\ out.resp.type = "Contents"
    /\ Occurrences(out.resp.text.json, "ro") = 1
    /\ policies["ro"] = "capabilities = [list]"

\* the one call a secret command issues for its payload
SecretCall(name, payload) ==
    [op |-> CommandOp(name),
     target |-> <<"secret/data/", payload.path.v>>,
     body |-> IF name = "secret/create" THEN payload.data.v ELSE ""]

SecretCommands == {"secret/create", "secret/read", "secret/delete"}

\* C17: every backend call of secret/create, secret/read and secret/delete
\* with path p addresses secret/data/ followed by p: a write with the
\* caller's data as its data field, a read, a delete; none of the three
\* issues a call to any other location.
C17_SecretLocation ==
    /\ (out.kind = "tool" /\ out.name \in SecretCommands) =>
          \A k \in 1..Len(out.calls) :
             out.calls[k] = SecretCall(out.name, out.payload)
    /\ \A i \in Slots :
          (inflight[i].busy /\ inflight[i].name \in SecretCommands) =>
              /\ inflight[i].calls # <<>>
              /\ \A k \in 1..Len(inflight[i].calls) :
                    inflight[i].calls[k] = SecretCall(inflight[i].name, inflight[i].payload)

C17_Witness ==
    /\ out.kind = "tool"
    /\ out.name = "secret/create"
    /\ out.resp.type = "Success"
    /\ out.calls = <<[op |-> "write", target |-> <<"secret/data/", "p2">>,
                      body |-> "d1"]>>
    /\ kv["p2"] = [data |-> "d1", state |-> "live"]

\* C18: a read of vault://secrets or vault://policies whose backend call
\* returned a list of entries is answered with the serialised form of the
\* structure the backend returned, entries in the backend's order, not
\* reshaped.
C18_RawStructureSerialized ==
    (out.kind = "resource" /\ out.result.kind \in {"keys", "policies"}) =>
        /\ out.resp.type = "Contents"
        /\ out.resp.text.json = JsonStringify(out.result)

\* C19: a secret or a policy changes only in a step that answers a
\* secret/create, secret/delete or policy/create; the prompt is answered
\* without a backend call, issued or pending, and leaves the backend and
\* the pending invocations as they are.
C19_OnlyWritesChangeBackend ==
    [][/\ (kv' # kv \/ policies' # policies) =>
             \E i \in Slots :
                /\ Answered(i)
                /\ inflight[i].name \in {"secret/create", "secret/delete", "policy/create"}
       /\ (out'.kind = "prompt" /\ out' # out) =>
             /\ out'.calls = <<>>
             /\ UNCHANGED <<kv, policies, inflight>>
       /\ \A i \in Slots : inflight'[i].busy => inflight'[i].kind \in {"tool", "resource"}
      ]_vars

C19_Witness ==
    /\ out.kind = "prompt"
    /\ out.calls = <<>>
    /\ out.resp.type = "Messages"
    /\ kv["p1"].state = "live"
    /\ policies["ro"] # ""

\* C20: with invocations overlapping, the answer to an invocation names the
\* invocation's own command, payload and call; its result is one the
\* backend gives to that call; its text is built from the invocation's own
\* path or policy name and that result; and no step changes another pending invocation,
\* the registry, the configuration or the client.
C20_OverlapSafe ==
    [][/\ \A i \in Slots :
             Answered(i) =>
                 /\ out'.name = inflight[i].name
                 /\ out'.payload = inflight[i].payload
                 /\ out'.calls = inflight[i].calls
                 /\ out'.result \in
                       {o.result : o \in CallOutcomes(inflight[i].calls[1], kv, policies)}
                 /\ IF out'.result.ok
                    THEN /\ out'.resp.type = "Success"
                         /\ out'.resp.text.arg =
                               (IF inflight[i].name = "policy/create"
                                THEN inflight[i].payload.name.v
                                ELSE inflight[i].payload.path.v)
                         /\ out'.resp.text.json = JsonStringify(out'.result)
                    ELSE /\ out'.resp.type = "CommandFailure"
                         /\ out'.resp.msg = out'.result.msg
                 /\ \A j \in Slots \ {i} : inflight'[j] = inflight[j]
       /\ \A i \in Slots :
             (inflight[i].busy /\ inflight'[i].busy) => inflight'[i] = inflight[i]
       /\ pc = "serving" => UNCHANGED <<registry, config, vaultClient>>
      ]_vars

C20_Witness ==
    /\ MaxOverlap \in DOMAIN inflight
    /\ ~inflight[1].busy
    /\ inflight[MaxOverlap].busy
    /\ inflight[MaxOverlap].name = "secret/create"
    /\ inflight[MaxOverlap].payload.path.v = "p1"
    /\ out.name = "secret/read"
    /\ out.payload.path.v = "p2"
    /\ out.resp.type = "Success"
    /\ out.resp.text.arg = "p2"
    /\ out.resp.text.json = <<"{", "secret", "d2", "}">>

\* C21: while the call of one invocation is pending, a request that arrives
\* is dispatched as long as the transport has room for it, and every
\* pending invocation can be answered at once with what the backend has for
\* its call, an error or, where the store has one, a result, whichever
\* other calls are pending: none waits for another.
C21_NoStall ==
    pc = "serving" =>
        /\ FreeSlots # {} =>
              \A r \in OverlapRequests : ENABLED CallTool(r[1], r[2])
        /\ \A i \in Slots :
              inflight[i].busy =>
                  /\ ENABLED CallRejects(i)
                  /\ (\E o \in StoreOutcomes(inflight[i].calls[1], kv, policies) :
                         o.result.ok) => ENABLED CallResolves(i)

C21_Witness ==
    /\ MaxOverlap \in DOMAIN inflight
    /\ inflight[1].busy
    /\ inflight[1].name = "secret/create"
    /\ inflight[1].payload.path.v = "p1"
    /\ inflight[MaxOverlap].busy
    /\ inflight[MaxOverlap].name = "secret/read"
    /\ inflight[MaxOverlap].payload.path.v = "p2"
    /\ inflight[MaxOverlap].calls # <<>>
    /\ ENABLED CallResolves(MaxOverlap)

\* C22: every invocation whose handler awaits a backend call is answered in
\* the end, also when the backend never answers the call.
C22_EveryInvocationAnswered ==
    \A i \in 1..MaxInflight : inflight[i].busy ~> ~inflight[i].busy

\* C23: while the process serves, the configuration is the one parsed from
\* the environment, the client the one created from it and the registry the
\* one the constructor built; no step changes any of the three; and a
\* secret/read which the backend serves is answered with the secret the
\* backend holds at the path in that step, or with not-found when it holds
\* none, whatever was answered before.
C23_NoAdapterData ==
    [][pc = "serving" =>
          /\ config = <<ParsedConfig(env.addr, env.token, env.port)>>
          /\ vaultClient = <<[token |-> env.token.s, endpoint |-> env.addr.s]>>
          /\ registry = ConstructedRegistry
          /\ UNCHANGED <<config, vaultClient, registry>>
          /\ \A i \in Slots :
                (Answered(i) /\ inflight[i].name = "secret/read" /\ Served) =>
                    /\ out'.result =
                          (IF kv[PathOf(i)].state = "live"
                           THEN CallResult("secret", <<kv[PathOf(i)].data>>)
                           ELSE CallError(NotFound))
                    /\ out'.result.ok =>
                          out'.resp.text.json = <<"{", "secret", kv[PathOf(i)].data, "}">>
                    /\ inflight'[i] = FreeSlot
      ]_vars

C23_Witness ==
    /\ pc = "serving"
    /\ config # <<>>
    /\ registry = ConstructedRegistry
    /\ \A i \in Slots : inflight[i] = FreeSlot
    /\ out.name = "secret/read"
    /\ out.payload.path.v = "p1"
    /\ out.resp.type = "Success"
    /\ out.resp.text.json = <<"{", "secret", "d2", "}">>
    /\ kv["p1"] = [data |-> "d2", state |-> "live"]

\* the four commands, the two resources and the prompt are registered
Populated(reg) ==
    /\ {t.name : t \in reg.tools} = CommandNames
    /\ {r.uri : r \in reg.resources} = {"vault://secrets", "vault://policies"}
    /\ {pr.name : pr \in reg.prompts} = {"generate-policy"}

\* C24: a client exists only for a configuration that passed the
\* validation; once the constructor is done and before the transport
\* connects, everything is registered; an invocation is dispatched or
\* answered only with the configuration validated and the registry full;
\* and when the validation fails there is no client and nothing registered.
C24_StartupOrder ==
    /\ vaultClient # <<>> =>
          /\ config # <<>>
          /\ ~EnvMissing(env)
          /\ ConfigIssues(env.addr, env.token, env.port) = <<>>
    /\ registry # EmptyRegistry => (vaultClient # <<>> /\ Populated(registry))
    /\ pc \in {"start", "serving"} =>
          (config # <<>> /\ vaultClient # <<>> /\ Populated(registry))
    /\ ~NothingDispatched =>
          (config # <<>> /\ vaultClient # <<>> /\ Populated(registry))
    /\ report.kind \in {"missing_env", "invalid_config"} =>
          /\ config = <<>>
          /\ vaultClient = <<>>
          /\ registry = EmptyRegistry
          /\ NothingDispatched

C24_Witness ==
    /\ pc = "start"
    /\ config # <<>>
    /\ vaultClient # <<>>
    /\ Populated(registry)
    /\ NothingDispatched

\* the serialised capabilities of a prompt text: what stands between the
\* brackets of the array
ArrayTokens(json) ==
    LET open  == CHOOSE k \in 1..Len(json) : json[k] = "["
        close == CHOOSE k \in 1..Len(json) : json[k] = "]"
    IN  SubSeq(json, open + 1, close - 1)

\* the positions of the quotes in the serialised capabilities
Quotes(inner) == {k \in 1..Len(inner) : inner[k] = "\""}

\* the position of the n-th quote
QuoteAt(inner, n) ==
    CHOOSE k \in Quotes(inner) : Cardinality({j \in Quotes(inner) : j <= k}) = n

\* the entries of the serialised capabilities: entry k stands between the
\* quotes 2k - 1 and 2k
Entries(json) ==
    LET inner == ArrayTokens(json)
    IN  [k \in 1..(Cardinality(Quotes(inner)) \div 2) |->
            SubSeq(inner, QuoteAt(inner, 2 * k - 1) + 1, QuoteAt(inner, 2 * k) - 1)]

\* C25: the list the prompt returns has one entry more than the
\* capabilities string has commas: the empty string gives the list of one
\* empty entry, and a token that is empty (a comma first, last or doubled)
\* or holds white space only gives the empty entry at its position.
C25_NoTokenDropped ==
    out.kind = "prompt" =>
        LET list == Entries(out.resp.text.json)
        IN  /\ Len(list) = Cardinality(Commas(out.capabilities)) + 1
            /\ out.capabilities = <<>> => list = <<<<>>>>
            /\ \A k \in 1..Len(list) :
                  (\A j \in 1..Len(Token(out.capabilities, k)) :
                      Token(out.capabilities, k)[j] = " ") => list[k] = <<>>

C25_Witness ==
    /\ out.kind = "prompt"
    /\ out.capabilities = <<"r", ",", ",", " ">>
    /\ Entries(out.resp.text.json) = <<<<"r">>, <<>>, <<>>>>

\* C26: a read of vault://secrets whose list call succeeds with a result
\* that has no keys, the keys absent or empty, or no data at all, is
\* answered with the contents []; and the contents of every read of
\* vault://secrets are a serialised list.
C26_EmptyListing ==
    (out.kind = "resource" /\ out.name = "vault://secrets") =>
        /\ out.resp.type = "Contents"
        /\ Head(out.resp.text.json) = "["
        /\ out.resp.text.json[Len(out.resp.text.json)] = "]"
        /\ (out.result.ok
              /\ (out.result.kind \in {"nokeys", "nodata"}
                    \/ (out.result.kind = "keys" /\ out.result.data = <<>>))) =>
              out.resp.text.json = <<"[", "]">>

C26_Witness ==
    /\ out.kind = "resource"
    /\ out.name = "vault://secrets"
    /\ out.result.ok
    /\ out.result.kind = "nodata"
    /\ out.resp.type = "Contents"
    /\ out.resp.text.json = <<"[", "]">>

=============================================================================
